---- MODULE Spec2Model ----
(***************************************************************************)
(* Model of the Everything index decoder,                                  *)
(* dissect/target/helpers/locate/everything.py: the constructor of         *)
(* EverythingDBParser (magic, version, flags, counts, filesystem table,    *)
(* reserved integers) and its generator __iter__ (folder linkage,          *)
(* filesystem resolution, folder names and metadata, folder records, file  *)
(* entries and file records).                                              *)
(*                                                                         *)
(* The byte source is forward-only.  The bytes a step consumes are chosen  *)
(* when the step runs (a chunk), which is the same as choosing the whole   *)
(* stream beforehand; once the source has ended (eof) every later read     *)
(* returns no bytes.  Python's None is Null.                               *)
(***************************************************************************)
EXTENDS Integers, Sequences, FiniteSets, TLC

\* ------------------------------------------------------------------ bounds
MaxFolders == 2
MaxFiles == 2
MaxFs == 2

\* ------------------------------------------------------- program constants
Null == -1

FILE_MAGIC == <<69, 83, 68, 98>>
UNSUPPORTED_FILE_MAGIC == <<69, 90, 68, 66>>
BZIP_HEADER == <<66, 90, 104, 57>>

DIRECTORY == "directory"
FILE == "file"

\* versions are <<major, minor, micro>>
SUPPORTED_DB_VERSION_RANGES == { << <<1, 7, 17>>, <<1, 7, 20>> >> }

NTFS == 0
EFU == 1
FOLDER == 2
REFS == 3

HasFileSize == 1
HasDateCreated == 2
HasDateModified == 4
HasDateAccessed == 8
HasAttributes == 16
HasFolderSize == 32

DefaultFolderAttributes == 16
VarintSentinel == 255
Backslash == 92

\* ------------------------------------------------------------ byte helpers
Min(a, b) == IF a < b THEN a ELSE b

Take(s, n) == SubSeq(s, 1, Min(n, Len(s)))

Drop(s, n) == SubSeq(s, Min(n, Len(s)) + 1, Len(s))

\* int.from_bytes(bytes, byteorder="little"); the empty string gives 0
RECURSIVE FromBytesLE(_)
FromBytesLE(bytes) ==
    IF bytes = <<>> THEN 0 ELSE Head(bytes) + 256 * FromBytesLE(Tail(bytes))

\* flag in self.flags
HasFlag(flags, bit) == (flags \div bit) % 2 = 1

\* packaging.version.Version ordering on release triples
VersionLE(a, b) ==
    \/ a[1] < b[1]
    \/ a[1] = b[1] /\ a[2] < b[2]
    \/ a[1] = b[1] /\ a[2] = b[2] /\ a[3] <= b[3]

check_version_support(version) ==
    \E rng \in SUPPORTED_DB_VERSION_RANGES :
        VersionLE(rng[1], version) /\ VersionLE(version, rng[2])

\* __version_between(start=..., end=...); a bound not given is NoVersion
NoVersion == <<>>

version_between(version, start, end) ==
    IF start # NoVersion /\ VersionLE(version, start) THEN FALSE
    ELSE IF end # NoVersion /\ ~VersionLE(version, end) THEN FALSE
    ELSE TRUE

\* ------------------------------------------------------------ cursor reads
\* A read takes the unread bytes s of the step's chunk and gives the value,
\* the bytes left, and the exception raised ("" when none).

\* self.fh.read(i): up to i bytes, fewer when the source ends
Read(s, i) == [err |-> "", val |-> Take(s, i), rest |-> Drop(s, i)]

\* self.fh.read(1)[0]
ReadU8(s) ==
    IF s = <<>> THEN [err |-> "IndexError", val |-> 0, rest |-> s]
    ELSE [err |-> "", val |-> Head(s), rest |-> Tail(s)]

ReadU32(s) == [err |-> "", val |-> FromBytesLE(Take(s, 4)), rest |-> Drop(s, 4)]

ReadU64(s) == [err |-> "", val |-> FromBytesLE(Take(s, 8)), rest |-> Drop(s, 8)]

\* read_byte_or_4: the 0xFF branch raises before its 4-byte read
ReadByteOr4(s) ==
    IF s = <<>> THEN [err |-> "IndexError", val |-> 0, rest |-> s]
    ELSE IF Head(s) = VarintSentinel
    THEN [err |-> "NotImplementedError", val |-> 0, rest |-> Tail(s)]
    ELSE [err |-> "", val |-> Head(s), rest |-> Tail(s)]

\* read_len_then_data
ReadLenThenData(s) ==
    LET n == ReadByteOr4(s)
    IN  IF n.err # "" THEN [err |-> n.err, val |-> <<>>, rest |-> n.rest]
        ELSE Read(n.rest, n.val)

\* ------------------------------------------------------------ text decoding
\* number of bytes of the UTF-8 sequence that starts s, 0 when s starts with
\* no well-formed sequence (bytes.decode() is strict UTF-8)
Utf8Width(s) ==
    LET b == s[1]
        c(i, lo, hi) == Len(s) >= i /\ lo <= s[i] /\ s[i] <= hi
    IN  IF b < 128 THEN 1
        ELSE IF 194 <= b /\ b <= 223 THEN (IF c(2, 128, 191) THEN 2 ELSE 0)
        ELSE IF b = 224 THEN (IF c(2, 160, 191) /\ c(3, 128, 191) THEN 3 ELSE 0)
        ELSE IF b = 237 THEN (IF c(2, 128, 159) /\ c(3, 128, 191) THEN 3 ELSE 0)
        ELSE IF 225 <= b /\ b <= 239
        THEN (IF c(2, 128, 191) /\ c(3, 128, 191) THEN 3 ELSE 0)
        ELSE IF b = 240
        THEN (IF c(2, 144, 191) /\ c(3, 128, 191) /\ c(4, 128, 191) THEN 4 ELSE 0)
        ELSE IF 241 <= b /\ b <= 243
        THEN (IF c(2, 128, 191) /\ c(3, 128, 191) /\ c(4, 128, 191) THEN 4 ELSE 0)
        ELSE IF b = 244
        THEN (IF c(2, 128, 143) /\ c(3, 128, 191) /\ c(4, 128, 191) THEN 4 ELSE 0)
        ELSE 0

\* the code point of one well-formed sequence of w bytes
Utf8Point(s, w) ==
    IF w = 1 THEN s[1]
    ELSE IF w = 2 THEN (s[1] - 192) * 64 + (s[2] - 128)
    ELSE IF w = 3 THEN (s[1] - 224) * 4096 + (s[2] - 128) * 64 + (s[3] - 128)
    ELSE (s[1] - 240) * 262144 + (s[2] - 128) * 4096 + (s[3] - 128) * 64 + (s[4] - 128)

\* bytes.decode(): the text as a sequence of code points, or UnicodeDecodeError
RECURSIVE Decode(_)
Decode(s) ==
    IF s = <<>> THEN [err |-> "", val |-> <<>>]
    ELSE LET w == Utf8Width(s)
         IN  IF w = 0 THEN [err |-> "UnicodeDecodeError", val |-> <<>>]
             ELSE LET more == Decode(Drop(s, w))
                  IN  IF more.err # "" THEN more
                      ELSE [err |-> "", val |-> <<Utf8Point(s, w)>> \o more.val]

\* dissect.util.ts.wintimestamp (external): 100 ns ticks since 1601 to a calendar
\* time, held as the microseconds since 1601 (datetime's resolution)
wintimestamp(ts) == ts \div 10

\* variant: wintimestamp(x) if x is not None else None
TimestampOrNoneZeroKept(x) == IF x = Null THEN Null ELSE wintimestamp(x)

\* wintimestamp(x) if x else None
TimestampOrNone(x) == IF x = Null \/ x = 0 THEN Null ELSE wintimestamp(x)

\* ------------------------------------------------------------- folder index
\* EverythingIndexObj.__init__; file_path is read only after it was set
EverythingIndexObj ==
    [fs_index |-> Null, file_path |-> <<>>, parent_index |-> Null, size |-> Null,
     date_created |-> Null, date_modified |-> Null, date_accessed |-> Null,
     attributes |-> Null]

\* variant: the parent's path and the basename are joined without a separator
RECURSIVE resolve_path_unseparated(_, _)
resolve_path_unseparated(fl, i) ==
    IF fl[i].parent_index # Null
    THEN resolve_path_unseparated(fl, fl[i].parent_index + 1) \o fl[i].file_path
    ELSE fl[i].file_path

\* EverythingIndexObj.resolve_path, for the folder at index i.  Called only
\* once resolve_fs has returned for every folder, so the chain ends.
RECURSIVE resolve_path(_, _)
resolve_path(fl, i) ==
    IF fl[i].parent_index # Null
    THEN resolve_path(fl, fl[i].parent_index + 1) \o <<Backslash>> \o fl[i].file_path
    ELSE fl[i].file_path

\* EverythingIndexObj.resolve_fs, for the folder at index i.  A chain that
\* comes back to a folder it went through never reaches the base case:
\* the recursion ends in RecursionError.
RECURSIVE resolve_fs_from(_, _, _)
resolve_fs_from(fl, i, seen) ==
    IF fl[i].fs_index # Null THEN [err |-> "", val |-> fl[i].fs_index]
    ELSE IF i \in seen THEN [err |-> "RecursionError", val |-> Null]
    ELSE resolve_fs_from(fl, fl[i].parent_index + 1, seen \cup {i})

resolve_fs(fl, i) == resolve_fs_from(fl, i, {})

\* for f in folder_list: f.fs_index = f.resolve_fs(folder_list)
ResolveAll(fl) ==
    IF \E i \in 1..Len(fl) : resolve_fs(fl, i).err # ""
    THEN [err |-> "RecursionError", val |-> fl]
    ELSE [err |-> "",
          val |-> [i \in 1..Len(fl) |-> [fl[i] EXCEPT !.fs_index = resolve_fs(fl, i).val]]]

\* EverythingF
EverythingF(file_path, size, attributes, date_created, date_modified, date_accessed, file_type) ==
    [file_path |-> file_path, size |-> size, attributes |-> attributes,
     date_created |-> date_created, date_modified |-> date_modified,
     date_accessed |-> date_accessed, file_type |-> file_type]

\* ------------------------------------------------------------- constructor
Fail(e, s) == [err |-> e, rest |-> s]

\* __parse_db_version: [v1, v2, v3, v4] = self.read(4), unpacking fewer than
\* four bytes raises ValueError
parse_db_version(s) ==
    LET b == Read(s, 4)
    IN  IF Len(b.val) < 4 THEN [err |-> "ValueError", val |-> <<>>, rest |-> b.rest]
        ELSE [err |-> "", rest |-> b.rest,
              val |-> <<b.val[4], b.val[3], FromBytesLE(SubSeq(b.val, 1, 2))>>]

\* n length-prefixed strings in a row, each decoded as text when decode is set
RECURSIVE ReadStrings(_, _, _)
ReadStrings(s, n, decode) ==
    IF n = 0 THEN Fail("", s)
    ELSE LET d == ReadLenThenData(s)
         IN  IF d.err # "" THEN Fail(d.err, d.rest)
             ELSE IF decode /\ Decode(d.val).err # ""
             THEN Fail("UnicodeDecodeError", d.rest)
             ELSE ReadStrings(d.rest, n - 1, decode)

\* the kind-specific tail of one filesystem descriptor
FsTail(fs_type, version, s) ==
    LET newer == version_between(version, <<1, 7, 9>>, NoVersion)
        u64s(r, n) == IF r.err # "" THEN r ELSE Fail("", Drop(r.rest, 8 * n))
    IN  IF fs_type = NTFS
        THEN LET a == ReadStrings(s, 3, TRUE)
             IN  IF a.err # "" \/ ~newer THEN a
                 ELSE u64s(ReadStrings(a.rest, 1, TRUE), 2)
        ELSE IF fs_type = EFU
        THEN u64s(ReadStrings(s, 1, FALSE), IF newer THEN 1 ELSE 0)
        ELSE IF fs_type = FOLDER
        THEN u64s(ReadStrings(s, 1, TRUE), IF newer THEN 1 ELSE 0)
        ELSE IF fs_type = REFS /\ version_between(version, <<1, 7, 16>>, NoVersion)
        THEN u64s(ReadStrings(s, 4, TRUE), 2)
        ELSE Fail("NotImplementedError", s)

\* one round of the loop of __parse_filesystems; val is the kind appended
ParseFilesystem(version, s) ==
    LET t == ReadByteOr4(s)
    IN  IF t.err # "" THEN [err |-> t.err, val |-> Null, rest |-> t.rest]
        ELSE
        LET ood == IF version_between(version, <<1, 7, 9>>, NoVersion)
                   THEN ReadU8(t.rest)
                   ELSE [err |-> "", val |-> 0, rest |-> t.rest]
        IN  IF ood.err # "" THEN [err |-> ood.err, val |-> Null, rest |-> ood.rest]
            ELSE IF t.val \notin {NTFS, EFU, FOLDER, REFS}
            THEN [err |-> "ValueError", val |-> Null, rest |-> ood.rest]
            ELSE LET tail == FsTail(t.val, version, ood.rest)
                 IN  [err |-> tail.err, val |-> t.val, rest |-> tail.rest]

\* variant: only the first of the three reserved integers is looked at
ParseReservedFirstOnly(version, s) ==
    LET ex == IF version_between(version, <<1, 7, 9>>, NoVersion)
              THEN ReadU8(s)
              ELSE [err |-> "", val |-> 0, rest |-> s]
    IN  IF ex.err # "" THEN Fail(ex.err, ex.rest)
        ELSE
        LET a == ReadByteOr4(ex.rest)
        IN  IF a.err # "" THEN Fail(a.err, a.rest)
            ELSE
            LET b == ReadByteOr4(a.rest)
            IN  IF b.err # "" THEN Fail(b.err, b.rest)
                ELSE
                LET c == ReadByteOr4(b.rest)
                IN  IF c.err # "" THEN Fail(c.err, c.rest)
                    ELSE IF a.val # 0
                    THEN Fail("NotImplementedError", c.rest)
                    ELSE Fail("", c.rest)

\* the exclude-flags byte and the three reserved integers
ParseReserved(version, s) ==
    LET ex == IF version_between(version, <<1, 7, 9>>, NoVersion)
              THEN ReadU8(s)
              ELSE [err |-> "", val |-> 0, rest |-> s]
    IN  IF ex.err # "" THEN Fail(ex.err, ex.rest)
        ELSE
        LET a == ReadByteOr4(ex.rest)
        IN  IF a.err # "" THEN Fail(a.err, a.rest)
            ELSE
            LET b == ReadByteOr4(a.rest)
            IN  IF b.err # "" THEN Fail(b.err, b.rest)
                ELSE
                LET c == ReadByteOr4(b.rest)
                IN  IF c.err # "" THEN Fail(c.err, c.rest)
                    ELSE IF <<a.val, b.val, c.val>> # <<0, 0, 0>>
                    THEN Fail("NotImplementedError", c.rest)
                    ELSE Fail("", c.rest)

\* ------------------------------------------------------------ tree decoding
\* variant: the range check lets the first reference past the filesystems through
LinkFolderLoose(folder, number_of_folders, total_filesystem_num, s) ==
    LET p == ReadU32(s)
    IN  IF p.val > total_filesystem_num + number_of_folders
        THEN [err |-> "ValueError", folder |-> folder, rest |-> p.rest]
        ELSE IF p.val >= number_of_folders
        THEN [err |-> "", rest |-> p.rest,
              folder |-> [folder EXCEPT !.fs_index = p.val - number_of_folders]]
        ELSE [err |-> "", rest |-> p.rest,
              folder |-> [folder EXCEPT !.parent_index = p.val]]

\* folder pass, the linkage of one folder: a raw parent reference is a folder
\* index, a filesystem index shifted by the folder count, or out of range
LinkFolder(folder, number_of_folders, total_filesystem_num, s) ==
    LET p == ReadU32(s)
    IN  IF p.val >= total_filesystem_num + number_of_folders
        THEN [err |-> "ValueError", folder |-> folder, rest |-> p.rest]
        ELSE IF p.val >= number_of_folders
        THEN [err |-> "", rest |-> p.rest,
              folder |-> [folder EXCEPT !.fs_index = p.val - number_of_folders]]
        ELSE [err |-> "", rest |-> p.rest,
              folder |-> [folder EXCEPT !.parent_index = p.val]]

NameFail(e, temp_buf, s) == [err |-> e, buf |-> temp_buf, rest |-> s]

\* variant: a remove_from_prev larger than the buffer empties the buffer
FolderNameClamped(temp_buf, s) ==
    LET prev_size == Len(temp_buf)
        str_len == ReadByteOr4(s)
    IN  IF str_len.err # "" THEN NameFail(str_len.err, temp_buf, str_len.rest)
        ELSE IF str_len.val # 0
        THEN LET remove_from_prev == ReadByteOr4(str_len.rest)
             IN  IF remove_from_prev.err # ""
                 THEN NameFail(remove_from_prev.err, temp_buf, remove_from_prev.rest)
                 ELSE LET d == Read(remove_from_prev.rest, str_len.val)
                      IN  [err |-> "", rest |-> d.rest,
                           buf |-> SubSeq(temp_buf, 1,
                                          prev_size - Min(remove_from_prev.val, prev_size))
                                     \o d.val]
        ELSE LET d == Read(str_len.rest, str_len.val)
             IN  [err |-> "", rest |-> d.rest, buf |-> temp_buf \o d.val]

\* folder pass, the shared-prefix name of one entry: the rolling buffer after
\* the entry
FolderName(temp_buf, s) ==
    LET prev_size == Len(temp_buf)
        str_len == ReadByteOr4(s)
    IN  IF str_len.err # "" THEN NameFail(str_len.err, temp_buf, str_len.rest)
        ELSE IF str_len.val # 0
        THEN LET remove_from_prev == ReadByteOr4(str_len.rest)
             IN  IF remove_from_prev.err # ""
                 THEN NameFail(remove_from_prev.err, temp_buf, remove_from_prev.rest)
                 ELSE IF remove_from_prev.val > prev_size
                 THEN NameFail("ValueError", temp_buf, remove_from_prev.rest)
                 ELSE LET d == Read(remove_from_prev.rest, str_len.val)
                      IN  [err |-> "", rest |-> d.rest,
                           buf |-> SubSeq(temp_buf, 1, prev_size - remove_from_prev.val)
                                     \o d.val]
        ELSE LET d == Read(str_len.rest, str_len.val)
             IN  [err |-> "", rest |-> d.rest, buf |-> temp_buf \o d.val]

\* variant: the buffer is cut with temp_buf[:-remove_from_prev], which is empty
\* when remove_from_prev is 0
FileNameNegativeSlice(temp_buf, s) ==
    LET prev_size == Len(temp_buf)
        str_len == ReadByteOr4(s)
    IN  IF str_len.err # "" THEN NameFail(str_len.err, temp_buf, str_len.rest)
        ELSE IF str_len.val # 0
        THEN LET remove_from_prev == ReadByteOr4(str_len.rest)
             IN  IF remove_from_prev.err # ""
                 THEN NameFail(remove_from_prev.err, temp_buf, remove_from_prev.rest)
                 ELSE IF remove_from_prev.val > prev_size
                 THEN NameFail("ValueError", temp_buf, remove_from_prev.rest)
                 ELSE LET d == Read(remove_from_prev.rest, str_len.val)
                      IN  [err |-> "", rest |-> d.rest,
                           buf |-> (IF remove_from_prev.val = 0 THEN <<>>
                                    ELSE SubSeq(temp_buf, 1,
                                                prev_size - remove_from_prev.val))
                                     \o d.val]
        ELSE LET d == Read(str_len.rest, str_len.val)
             IN  [err |-> "", rest |-> d.rest, buf |-> temp_buf \o d.val]

\* file pass, the shared-prefix name of one entry (the same scheme, on the file
\* pass's own buffer)
FileName(temp_buf, s) ==
    LET prev_size == Len(temp_buf)
        str_len == ReadByteOr4(s)
    IN  IF str_len.err # "" THEN NameFail(str_len.err, temp_buf, str_len.rest)
        ELSE IF str_len.val # 0
        THEN LET remove_from_prev == ReadByteOr4(str_len.rest)
             IN  IF remove_from_prev.err # ""
                 THEN NameFail(remove_from_prev.err, temp_buf, remove_from_prev.rest)
                 ELSE IF remove_from_prev.val > prev_size
                 THEN NameFail("ValueError", temp_buf, remove_from_prev.rest)
                 ELSE LET d == Read(remove_from_prev.rest, str_len.val)
                      IN  [err |-> "", rest |-> d.rest,
                           buf |-> SubSeq(temp_buf, 1, prev_size - remove_from_prev.val)
                                     \o d.val]
        ELSE LET d == Read(str_len.rest, str_len.val)
             IN  [err |-> "", rest |-> d.rest, buf |-> temp_buf \o d.val]

\* a field read only when its flag is set: x = read() if flag in flags else None
Opt64(flags, bit, s) ==
    IF HasFlag(flags, bit) THEN ReadU64(s) ELSE [err |-> "", val |-> Null, rest |-> s]

Opt32(flags, bit, s) ==
    IF HasFlag(flags, bit) THEN ReadU32(s) ELSE [err |-> "", val |-> Null, rest |-> s]

\* variant: the byte read that lines 264-266 keep commented out is made for
\* the folders of an EFU filesystem
FolderTrailingEfuByte(folder, kind, s) ==
    IF kind = NTFS THEN [folder |-> folder, rest |-> Drop(s, 8)]
    ELSE IF kind = REFS THEN [folder |-> folder, rest |-> Drop(Drop(s, 8), 8)]
    ELSE IF kind = EFU /\ folder.parent_index = Null
    THEN [rest |-> Drop(s, 1),
          folder |-> [folder EXCEPT !.date_accessed = Null, !.date_modified = Null,
                                    !.date_created = Null, !.size = Null]]
    ELSE IF kind = EFU THEN [folder |-> folder, rest |-> Drop(s, 1)]
    ELSE [folder |-> folder, rest |-> s]

\* variant: the metadata of every folder of an EFU filesystem is dropped,
\* whether or not the folder has a parent folder
FolderTrailingAnyEfu(folder, kind, s) ==
    IF kind = NTFS THEN [folder |-> folder, rest |-> Drop(s, 8)]
    ELSE IF kind = REFS THEN [folder |-> folder, rest |-> Drop(Drop(s, 8), 8)]
    ELSE IF kind = EFU
    THEN [rest |-> s,
          folder |-> [folder EXCEPT !.date_accessed = Null, !.date_modified = Null,
                                    !.date_created = Null, !.size = Null]]
    ELSE [folder |-> folder, rest |-> s]

\* folder pass, the block that depends on the kind of the folder's filesystem:
\* 8 bytes for NTFS, 16 for REFS; the root of an EFU filesystem loses its
\* metadata
FolderTrailing(folder, kind, s) ==
    IF kind = NTFS THEN [folder |-> folder, rest |-> Drop(s, 8)]
    ELSE IF kind = REFS THEN [folder |-> folder, rest |-> Drop(Drop(s, 8), 8)]
    ELSE IF kind = EFU /\ folder.parent_index = Null
    THEN [rest |-> s,
          folder |-> [folder EXCEPT !.date_accessed = Null, !.date_modified = Null,
                                    !.date_created = Null, !.size = Null]]
    ELSE [folder |-> folder, rest |-> s]

\* folder pass, the metadata of one folder after its name: the flag-gated
\* fields, then the block of the filesystem kind
FolderMeta(folder, flags, filesystem_list, s) ==
    LET size == Opt64(flags, HasFolderSize, s)
        created == Opt64(flags, HasDateCreated, size.rest)
        modified == Opt64(flags, HasDateModified, created.rest)
        accessed == Opt64(flags, HasDateAccessed, modified.rest)
        attrs == Opt32(flags, HasAttributes, accessed.rest)
        read == [folder EXCEPT
                   !.size = size.val, !.date_created = created.val,
                   !.date_modified = modified.val, !.date_accessed = accessed.val,
                   !.attributes = IF HasFlag(flags, HasAttributes) THEN attrs.val
                                  ELSE DefaultFolderAttributes]
    IN  FolderTrailing(read, filesystem_list[folder.fs_index + 1], attrs.rest)

\* folder pass, one round of the name and metadata loop
FolderEntry(folder, temp_buf, flags, filesystem_list, s) ==
    LET n == FolderName(temp_buf, s)
        none == [err |-> n.err, folder |-> folder, buf |-> n.buf, rest |-> n.rest]
    IN  IF n.err # "" THEN none
        ELSE LET text == Decode(n.buf)
             IN  IF text.err # "" THEN [none EXCEPT !.err = text.err]
                 ELSE LET m == FolderMeta([folder EXCEPT !.file_path = text.val], flags,
                                          filesystem_list, n.rest)
                      IN  [err |-> "", folder |-> m.folder, buf |-> n.buf, rest |-> m.rest]

\* the Directory record of the folder at index i
FolderRecord(fl, i) ==
    EverythingF(resolve_path(fl, i), fl[i].size, fl[i].attributes,
                TimestampOrNone(fl[i].date_created), TimestampOrNone(fl[i].date_modified),
                TimestampOrNone(fl[i].date_accessed), DIRECTORY)

NoRecord == EverythingF(<<>>, Null, Null, Null, Null, Null, FILE)

\* variant: only the first of the two checks is made
FileParentErrorLoose(parent_index, number_of_folders, total_filesystem_num) ==
    IF parent_index > total_filesystem_num + number_of_folders THEN "ValueError"
    ELSE ""

\* file pass, the two checks of an entry's parent index
FileParentError(parent_index, number_of_folders, total_filesystem_num) ==
    IF parent_index > total_filesystem_num + number_of_folders THEN "ValueError"
    ELSE IF parent_index >= number_of_folders THEN "ValueError"
    ELSE ""

\* file pass, the flag-gated fields of an entry
FileFields(flags, s) ==
    LET file_size == Opt64(flags, HasFileSize, s)
        created == Opt64(flags, HasDateCreated, file_size.rest)
        modified == Opt64(flags, HasDateModified, created.rest)
        accessed == Opt64(flags, HasDateAccessed, modified.rest)
        attrs == Opt32(flags, HasAttributes, accessed.rest)
    IN  [file_size |-> file_size.val, date_created |-> created.val,
         date_modified |-> modified.val, date_accessed |-> accessed.val,
         attributes |-> attrs.val, rest |-> attrs.rest]

\* variant: a name that does not decode is replaced by the empty name and the
\* record is yielded all the same
TryYieldLossy(file_name, temp_buf, m) ==
    LET text == Decode(temp_buf)
    IN  [yielded |-> TRUE,
         record |-> EverythingF(file_name \o <<Backslash>> \o text.val,
                                m.file_size, m.attributes,
                                TimestampOrNone(m.date_created),
                                TimestampOrNone(m.date_modified),
                                TimestampOrNone(m.date_accessed), FILE)]

\* file pass, the try block: the record is yielded unless the name does not
\* decode, which is logged
TryYield(file_name, temp_buf, m) ==
    LET text == Decode(temp_buf)
    IN  IF text.err # "" THEN [yielded |-> FALSE, record |-> NoRecord]
        ELSE [yielded |-> TRUE,
              record |-> EverythingF(file_name \o <<Backslash>> \o text.val,
                                     m.file_size, m.attributes,
                                     TimestampOrNone(m.date_created),
                                     TimestampOrNone(m.date_modified),
                                     TimestampOrNone(m.date_accessed), FILE)]

FileFail(e, temp_buf, s) ==
    [err |-> e, buf |-> temp_buf, yielded |-> FALSE, record |-> NoRecord, rest |-> s]

\* variant: an entry whose name does not decode leaves the rolling buffer as
\* it was before the entry
FileEntryRewinding(fl, temp_buf, flags, number_of_folders, total_filesystem_num, s) ==
    LET parent_index == ReadU32(s)
        e == FileParentError(parent_index.val, number_of_folders, total_filesystem_num)
    IN  IF e # "" THEN FileFail(e, temp_buf, parent_index.rest)
        ELSE IF parent_index.val >= Len(fl)
        THEN FileFail("IndexError", temp_buf, parent_index.rest)
        ELSE
        LET file_name == resolve_path(fl, parent_index.val + 1)
            n == FileName(temp_buf, parent_index.rest)
        IN  IF n.err # "" THEN FileFail(n.err, n.buf, n.rest)
            ELSE LET m == FileFields(flags, n.rest)
                     y == TryYield(file_name, n.buf, m)
                 IN  [err |-> "", buf |-> IF y.yielded THEN n.buf ELSE temp_buf,
                      yielded |-> y.yielded, record |-> y.record, rest |-> m.rest]

\* file pass, one round of the loop; folder_list[parent_index] raises IndexError
\* for an index that is not in the list
FileEntry(fl, temp_buf, flags, number_of_folders, total_filesystem_num, s) ==
    LET parent_index == ReadU32(s)
        e == FileParentError(parent_index.val, number_of_folders, total_filesystem_num)
    IN  IF e # "" THEN FileFail(e, temp_buf, parent_index.rest)
        ELSE IF parent_index.val >= Len(fl)
        THEN FileFail("IndexError", temp_buf, parent_index.rest)
        ELSE
        LET file_name == resolve_path(fl, parent_index.val + 1)
            n == FileName(temp_buf, parent_index.rest)
        IN  IF n.err # "" THEN FileFail(n.err, n.buf, n.rest)
            ELSE LET m == FileFields(flags, n.rest)
                     y == TryYield(file_name, n.buf, m)
                 IN  [err |-> "", buf |-> n.buf, yielded |-> y.yielded,
                      record |-> y.record, rest |-> m.rest]

\* -------------------------------------------------------------------- state
VARIABLES
    family,                 \* the family of input files the stream is drawn from
    pc,                     \* where the parser is
    err,                    \* the exception that ended the parse, "" when none
    eof,                    \* the byte source has ended
    pos,                    \* bytes consumed from the (decompressed) source
    compressed,             \* self.fh is a bz2 reader
    version,                \* self.__db_version
    flags,                  \* self.flags
    number_of_folders,      \* self.number_of_folders
    number_of_files,        \* self.number_of_files
    total_filesystem_num,   \* self.total_filesystem_num
    filesystem_list,        \* self.filesystem_list
    folder_list,            \* folder_list of __iter__
    temp_buf,               \* temp_buf of __iter__
    idx,                    \* rounds done of the loop the parser is in
    out,                    \* the records yielded so far
    log,                    \* history: the bytes each step was given and what
                            \* the step did with them
    ahead                   \* bytes of the stream a step was given and left unread

vars == <<family, pc, err, eof, pos, compressed, version, flags, number_of_folders,
          number_of_files, total_filesystem_num, filesystem_list, folder_list,
          temp_buf, idx, out, log, ahead>>

header_vars == <<compressed, version, flags, number_of_folders, number_of_files,
                 total_filesystem_num, filesystem_list>>

tree_vars == <<folder_list, temp_buf, out>>

\* ------------------------------------------------------------------- inputs
\* Input files come in families, each rich in one part of the format:
\*   header      - every magic, version, flags and reserved value
\*   filesystems - every number, kind and string of the filesystem table
\*   linkage     - every number of filesystems (their kinds taken in turn) and
\*                 every parent reference of the folders
\*   names       - every name encoding of the folder table
\*   files       - every parent and name encoding of the file table
\*   cut         - a well-formed file that ends after any number of bytes
\* The first entry of a table has zero or non-zero metadata, the others
\* non-zero metadata.
Families == {"header", "filesystems", "linkage", "names", "files", "cut"}

Enc32(v) == <<v, 0, 0, 0>>

Enc64(v) == <<v, 0, 0, 0, 0, 0, 0, 0>>

EncStr(bytes) == <<Len(bytes)>> \o bytes

RECURSIVE Concat(_)
Concat(seqs) == IF seqs = <<>> THEN <<>> ELSE Head(seqs) \o Concat(Tail(seqs))

\* the cut points of a chunk: the whole chunk, or any shorter prefix when the
\* source ends inside it; nothing once the source has ended
CutPoints(c) ==
    IF eof THEN {0} ELSE IF family = "cut" THEN 0..Len(c) ELSE {Len(c)}

MagicInputs ==
    IF family = "header"
    THEN {FILE_MAGIC, UNSUPPORTED_FILE_MAGIC, BZIP_HEADER, <<255, 254, 0, 0>>}
    ELSE {FILE_MAGIC}

\* the magic the bz2 reader gives after a BZh9 header
InnerMagicInputs == {FILE_MAGIC, UNSUPPORTED_FILE_MAGIC, <<255, 254, 0, 0>>}

\* version bytes [v1, v2, v3, v4]
VersionInputs ==
    IF family = "header"
    THEN {<<16, 0, 7, 1>>, <<17, 0, 7, 1>>, <<20, 0, 7, 1>>, <<21, 0, 7, 1>>}
    ELSE {<<20, 0, 7, 1>>}

FlagInputs ==
    IF family = "header" THEN {0, HasDateModified, 63}
    ELSE IF family \in {"cut", "linkage"} THEN {63}
    ELSE {0, 63}

FolderCountInputs ==
    IF family \in {"linkage", "names"} THEN 0..MaxFolders
    ELSE IF family = "files" THEN 0..Min(MaxFolders, 2)
    ELSE 0..1

FileCountInputs ==
    IF family = "files" THEN 0..MaxFiles ELSE IF family = "linkage" THEN {1} ELSE 0..1

CountsInputs ==
    {Enc32(f) \o Enc32(nd) \o Enc32(nf) :
        f \in FlagInputs, nd \in FolderCountInputs, nf \in FileCountInputs}

FsCountInputs ==
    IF family = "filesystems" THEN {<<n>> : n \in 0..MaxFs} \cup {<<VarintSentinel, 1, 0, 0, 0>>}
    ELSE IF family = "linkage" THEN {<<n>> : n \in 0..MaxFs}
    ELSE {<<1>>}

FsTagInputs ==
    IF family = "filesystems" THEN 0..4
    ELSE IF family = "linkage" THEN {idx % 4}
    ELSE IF family = "names" THEN {NTFS, EFU, FOLDER}
    ELSE {NTFS}

FsStringInputs == IF family = "filesystems" THEN {<<67, 58>>, <<255>>} ELSE {<<67, 58>>}

\* one filesystem descriptor as version 1.7.17 and later write it
FsInputs ==
    {<<t, 0>> \o
     (IF t = NTFS \/ t = REFS
      THEN Concat(<<EncStr(str), EncStr(str), EncStr(str), EncStr(str), Enc64(1), Enc64(2)>>)
      ELSE EncStr(str) \o Enc64(1)) :
        t \in FsTagInputs, str \in FsStringInputs}

ReservedInputs ==
    IF family = "header"
    THEN {<<0, a, b, c>> : a \in {0, 1}, b \in {0, 1}, c \in {0, 1}}
         \cup {<<0, 0, VarintSentinel, 0>>}
    ELSE {<<0, 0, 0, 0>>}

\* raw parent references: every value up to the first one out of range, or
\* the folder before this one and the first filesystem, or the first filesystem
ParentRefInputs ==
    IF family = "linkage"
    THEN {Enc32(r) : r \in 0..(number_of_folders + total_filesystem_num)}
    ELSE IF family \in {"names", "files"}
    THEN {Enc32(r) : r \in {idx - 1, number_of_folders} \cap 0..number_of_folders}
    ELSE {Enc32(number_of_folders)}

\* name encodings: str_len, then remove_from_prev and the new bytes
NameInputs ==
    {<<0>>, <<1, 0, 65>>, <<1, 1, 66>>, <<2, 0, 195, 169>>, <<1, 0, 255>>, <<1, 2, 65>>,
     <<VarintSentinel>>}

\* the name "A" for the first entry, then "B", "C", ... in place of it
NameByIndex == <<1, Min(idx, 1), 65 + idx>>

FolderNameInputs == IF family = "names" THEN NameInputs ELSE {NameByIndex}

FileNameInputs == IF family = "files" THEN NameInputs ELSE {NameByIndex}

\* the flag-gated fields: for base b the raw values 10b, 20b, 30b, 40b and 50b
MetaBytes(size_bit, b) ==
    Concat(<<IF HasFlag(flags, size_bit) THEN Enc64(10 * b) ELSE <<>>,
             IF HasFlag(flags, HasDateCreated) THEN Enc64(20 * b) ELSE <<>>,
             IF HasFlag(flags, HasDateModified) THEN Enc64(30 * b) ELSE <<>>,
             IF HasFlag(flags, HasDateAccessed) THEN Enc64(40 * b) ELSE <<>>,
             IF HasFlag(flags, HasAttributes) THEN Enc32(50 * b) ELSE <<>> >>)

MetaBases(fams) == IF flags # 0 /\ family \in fams /\ idx = 0 THEN {0, 1} ELSE {1}

\* the block after a folder's metadata, as the writer lays it out for the kind
\* of the folder's filesystem
TrailingBytes(kind) ==
    IF kind = NTFS THEN Enc64(7) ELSE IF kind = REFS THEN Enc64(7) \o Enc64(8) ELSE <<>>

\* a step on the first entry of a table is given just the entry, or the entry
\* and the first byte of the entry after it
LookAhead(fam, entries, first) ==
    IF family = fam /\ idx = 0 /\ entries > 1 THEN {<<>>, <<first>>} ELSE {<<>>}

\* the inputs that start with the bytes the step before left unread
Offered(inputs) == {c \in inputs : Take(c, Len(ahead)) = ahead}

FolderEntryInputs ==
    {n \o MetaBytes(HasFolderSize, b)
       \o TrailingBytes(filesystem_list[folder_list[idx + 1].fs_index + 1]) \o a :
        n \in FolderNameInputs, b \in MetaBases({"header", "names"}),
        a \in LookAhead("names", number_of_folders, 1)}

\* parent indexes: the first folder, the last folder, the first index out of
\* range
FileParentInputs ==
    IF family = "files"
    THEN {0, number_of_folders - 1, number_of_folders} \cap 0..number_of_folders
    ELSE {0}

FileEntryInputs ==
    {Enc32(p) \o n \o MetaBytes(HasFileSize, b) \o a :
        p \in FileParentInputs, n \in FileNameInputs, b \in MetaBases({"files"}),
        a \in LookAhead("files", number_of_files, 0)}

\* ------------------------------------------------------------------ actions
Init ==
    /\ family \in Families
    /\ pc = "magic"
    /\ err = ""
    /\ eof = FALSE
    /\ pos = 0
    /\ compressed = FALSE
    /\ version = <<>>
    /\ flags = 0
    /\ number_of_folders = 0
    /\ number_of_files = 0
    /\ total_filesystem_num = 0
    /\ filesystem_list = <<>>
    /\ folder_list = <<>>
    /\ temp_buf = <<>>
    /\ idx = 0
    /\ out = <<>>
    /\ log = <<>>
    /\ ahead = <<>>

\* the step consumed the bytes of chunk that res left unread; the source ends
\* when the chunk was cut.  The history keeps the chunk, the bytes used, the
\* rolling buffer before and after, and whether the step raised or yielded.
\* What a step that raised nothing left unread is where the next step starts.
Consume(chunk, res, cut, buf, yielded) ==
    /\ pos' = pos + (Len(chunk) - Len(res.rest))
    /\ ahead' = IF res.err = "" THEN res.rest ELSE <<>>
    /\ eof' = (eof \/ cut)
    /\ log' = Append(log, [phase |-> pc, chunk |-> chunk,
                           used |-> Len(chunk) - Len(res.rest), prev |-> temp_buf,
                           buf |-> buf, failed |-> res.err # "", yielded |-> yielded])

\* an exception leaves the constructor or the generator
Raise(e) == pc' = "error" /\ err' = e

\* variant: the record is handed over ahead of the records yielded before it
YieldAhead(records, record) == <<record>> \o records

\* yield: the record is the next one the consumer gets
Yield(records, record) == Append(records, record)

\* temp_buf = b"", at the start of the folder pass and of the file pass
NewBuffer(left) == <<>>

\* the phase of __iter__ that runs next: a loop over nothing is skipped
AfterFolders(files) == IF files > 0 THEN "files" ELSE "done"

AfterResolve(folders, files) == IF folders > 0 THEN "names" ELSE AfterFolders(files)

AfterReserved(folders) == IF folders > 0 THEN "linkage" ELSE "resolve"

\* __init__, the magic: a BZh9 magic reopens the source through bz2 and reads
\* the magic again from the decompressed bytes
ParseMagic ==
    /\ pc = "magic"
    /\ \E c \in MagicInputs, inner \in InnerMagicInputs, n \in CutPoints(FILE_MAGIC) :
        LET first == Read(Take(c, n), 4)
            bz == first.val = BZIP_HEADER
            magic == IF bz THEN inner ELSE first.val
            e == IF magic = UNSUPPORTED_FILE_MAGIC THEN "NotImplementedError"
                 ELSE IF magic # FILE_MAGIC THEN "ValueError"
                 ELSE ""
        IN  /\ compressed' = bz
            /\ pos' = Len(magic)
            /\ eof' = (eof \/ n < 4)
            /\ log' = Append(log, [phase |-> pc, chunk |-> magic, used |-> Len(magic),
                                   prev |-> temp_buf, buf |-> temp_buf,
                                   failed |-> e # "", yielded |-> FALSE])
            /\ IF e # "" THEN Raise(e) ELSE pc' = "version" /\ err' = err
    /\ UNCHANGED <<family, version, flags, number_of_folders, number_of_files,
                   total_filesystem_num, filesystem_list, idx, ahead>>
    /\ UNCHANGED tree_vars

\* __init__, the version and its support check
ParseVersion ==
    /\ pc = "version"
    /\ \E c \in VersionInputs : \E n \in CutPoints(c) :
        LET chunk == Take(c, n)
            v == parse_db_version(chunk)
            e == IF v.err # "" THEN v.err
                 ELSE IF ~check_version_support(v.val) THEN "NotImplementedError"
                 ELSE ""
        IN  /\ Consume(chunk, [v EXCEPT !.err = e], n < Len(c), temp_buf, FALSE)
            /\ version' = v.val
            /\ IF e # "" THEN Raise(e) ELSE pc' = "counts" /\ err' = err
    /\ UNCHANGED <<family, compressed, flags, number_of_folders, number_of_files,
                   total_filesystem_num, filesystem_list, idx>>
    /\ UNCHANGED tree_vars

\* __init__, the flags and the two counts
ParseCounts ==
    /\ pc = "counts"
    /\ \E c \in CountsInputs : \E n \in CutPoints(c) :
        LET chunk == Take(c, n)
            f == ReadU32(chunk)
            nd == ReadU32(f.rest)
            nf == ReadU32(nd.rest)
        IN  /\ Consume(chunk, nf, n < Len(c), temp_buf, FALSE)
            /\ flags' = f.val
            /\ number_of_folders' = nd.val
            /\ number_of_files' = nf.val
    /\ pc' = "fs_count"
    /\ UNCHANGED <<family, err, compressed, version, total_filesystem_num,
                   filesystem_list, idx>>
    /\ UNCHANGED tree_vars

\* __parse_filesystems, the count
ParseFsCount ==
    /\ pc = "fs_count"
    /\ \E c \in FsCountInputs : \E n \in CutPoints(c) :
        LET chunk == Take(c, n)
            t == ReadByteOr4(chunk)
        IN  /\ Consume(chunk, t, n < Len(c), temp_buf, FALSE)
            /\ total_filesystem_num' = t.val
            /\ IF t.err # "" THEN Raise(t.err)
               ELSE /\ pc' = IF t.val > 0 THEN "filesystems" ELSE "reserved"
                    /\ err' = err
    /\ idx' = 0
    /\ UNCHANGED <<family, compressed, version, flags, number_of_folders,
                   number_of_files, filesystem_list>>
    /\ UNCHANGED tree_vars

\* __parse_filesystems, one round of the loop
ParseFs ==
    /\ pc = "filesystems"
    /\ idx < total_filesystem_num
    /\ \E c \in FsInputs : \E n \in CutPoints(c) :
        LET chunk == Take(c, n)
            fs == ParseFilesystem(version, chunk)
        IN  /\ Consume(chunk, fs, n < Len(c), temp_buf, FALSE)
            /\ filesystem_list' = IF fs.val # Null THEN Append(filesystem_list, fs.val)
                                  ELSE filesystem_list
            /\ IF fs.err # "" THEN Raise(fs.err) /\ idx' = idx
               ELSE /\ idx' = idx + 1
                    /\ pc' = IF idx + 1 < total_filesystem_num THEN "filesystems"
                             ELSE "reserved"
                    /\ err' = err
    /\ UNCHANGED <<family, compressed, version, flags, number_of_folders,
                   number_of_files, total_filesystem_num>>
    /\ UNCHANGED tree_vars

\* __init__, the exclude flags and the three reserved integers; the parser is
\* constructed when this step raises nothing, and __iter__ then makes its list
\* of empty folders
ParseReservedData ==
    /\ pc = "reserved"
    /\ \E c \in ReservedInputs : \E n \in CutPoints(c) :
        LET chunk == Take(c, n)
            r == ParseReserved(version, chunk)
        IN  /\ Consume(chunk, r, n < Len(c), temp_buf, FALSE)
            /\ IF r.err # "" THEN Raise(r.err) /\ folder_list' = folder_list
               ELSE /\ pc' = AfterReserved(number_of_folders)
                    /\ err' = err
                    /\ folder_list' = [i \in 1..number_of_folders |-> EverythingIndexObj]
    /\ idx' = 0
    /\ UNCHANGED <<family, temp_buf, out>>
    /\ UNCHANGED header_vars

\* __iter__, one round of the linkage loop
LinkFolders ==
    /\ pc = "linkage"
    /\ idx < number_of_folders
    /\ \E c \in ParentRefInputs : \E n \in CutPoints(c) :
        LET chunk == Take(c, n)
            l == LinkFolder(folder_list[idx + 1], number_of_folders,
                            total_filesystem_num, chunk)
        IN  /\ Consume(chunk, l, n < Len(c), temp_buf, FALSE)
            /\ folder_list' = [folder_list EXCEPT ![idx + 1] = l.folder]
            /\ IF l.err # "" THEN Raise(l.err) /\ idx' = idx
               ELSE /\ idx' = idx + 1
                    /\ pc' = IF idx + 1 < number_of_folders THEN "linkage" ELSE "resolve"
                    /\ err' = err
    /\ UNCHANGED <<family, temp_buf, out>>
    /\ UNCHANGED header_vars

\* __iter__, the loop that gives every folder its filesystem index; the
\* folder pass then starts on an empty buffer
ResolveFilesystems ==
    /\ pc = "resolve"
    /\ LET r == ResolveAll(folder_list)
       IN  /\ folder_list' = r.val
           /\ IF r.err # "" THEN Raise(r.err)
              ELSE /\ pc' = AfterResolve(number_of_folders, number_of_files)
                   /\ err' = err
    /\ idx' = 0
    /\ temp_buf' = NewBuffer(temp_buf)
    /\ UNCHANGED <<family, eof, pos, out, log, ahead>>
    /\ UNCHANGED header_vars

\* variant: each folder is yielded at the end of its round of the loop, under
\* its basename
DecodeFolderYielding ==
    /\ pc = "names"
    /\ idx < number_of_folders
    /\ \E c \in Offered(FolderEntryInputs) : \E n \in CutPoints(c) :
        LET chunk == Take(c, n)
            e == FolderEntry(folder_list[idx + 1], temp_buf, flags, filesystem_list, chunk)
        IN  /\ Consume(chunk, e, n < Len(c), e.buf, FALSE)
            /\ folder_list' = [folder_list EXCEPT ![idx + 1] = e.folder]
            /\ temp_buf' = e.buf
            /\ IF e.err # "" THEN Raise(e.err) /\ idx' = idx /\ out' = out
               ELSE /\ pc' = IF idx + 1 < number_of_folders THEN "names" ELSE "emit"
                    /\ idx' = IF idx + 1 < number_of_folders THEN idx + 1 ELSE 0
                    /\ err' = err
                    /\ out' = Yield(out, EverythingF(e.folder.file_path, e.folder.size,
                                                     e.folder.attributes, Null, Null, Null,
                                                     DIRECTORY))
    /\ UNCHANGED family
    /\ UNCHANGED header_vars

\* __iter__, one round of the folder name and metadata loop
DecodeFolder ==
    /\ pc = "names"
    /\ idx < number_of_folders
    /\ \E c \in Offered(FolderEntryInputs) : \E n \in CutPoints(c) :
        LET chunk == Take(c, n)
            e == FolderEntry(folder_list[idx + 1], temp_buf, flags, filesystem_list, chunk)
        IN  /\ Consume(chunk, e, n < Len(c), e.buf, FALSE)
            /\ folder_list' = [folder_list EXCEPT ![idx + 1] = e.folder]
            /\ temp_buf' = e.buf
            /\ IF e.err # "" THEN Raise(e.err) /\ idx' = idx
               ELSE /\ pc' = IF idx + 1 < number_of_folders THEN "names" ELSE "emit"
                    /\ idx' = IF idx + 1 < number_of_folders THEN idx + 1 ELSE 0
                    /\ err' = err
    /\ UNCHANGED <<family, out>>
    /\ UNCHANGED header_vars

\* __iter__, one Directory record is yielded; after the last one the file
\* pass starts on an empty buffer
YieldFolder ==
    /\ pc = "emit"
    /\ idx < number_of_folders
    /\ out' = Yield(out, FolderRecord(folder_list, idx + 1))
    /\ IF idx + 1 < number_of_folders
       THEN pc' = "emit" /\ idx' = idx + 1 /\ temp_buf' = temp_buf
       ELSE /\ pc' = AfterFolders(number_of_files)
            /\ idx' = 0
            /\ temp_buf' = NewBuffer(temp_buf)
    /\ UNCHANGED <<family, err, eof, pos, folder_list, log, ahead>>
    /\ UNCHANGED header_vars

\* __iter__, one round of the file loop: a File record is yielded, or the
\* entry is skipped because its name does not decode, or the parse fails
DecodeFile ==
    /\ pc = "files"
    /\ idx < number_of_files
    /\ \E c \in Offered(FileEntryInputs) : \E n \in CutPoints(c) :
        LET chunk == Take(c, n)
            e == FileEntry(folder_list, temp_buf, flags, number_of_folders,
                           total_filesystem_num, chunk)
        IN  /\ Consume(chunk, e, n < Len(c), e.buf, e.yielded)
            /\ temp_buf' = e.buf
            /\ out' = IF e.yielded THEN Yield(out, e.record) ELSE out
            /\ IF e.err # "" THEN Raise(e.err) /\ idx' = idx
               ELSE /\ pc' = IF idx + 1 < number_of_files THEN "files" ELSE "done"
                    /\ idx' = idx + 1
                    /\ err' = err
    /\ UNCHANGED <<family, folder_list>>
    /\ UNCHANGED header_vars

Next ==
    \/ ParseMagic
    \/ ParseVersion
    \/ ParseCounts
    \/ ParseFsCount
    \/ ParseFs
    \/ ParseReservedData
    \/ LinkFolders
    \/ ResolveFilesystems
    \/ DecodeFolder
    \/ YieldFolder
    \/ DecodeFile

Spec == Init /\ [][Next]_vars

\* ------------------------------------------------------------------- claims
\* what the history holds of each table, in table order
LinkEntries == SelectSeq(log, LAMBDA e : e.phase = "linkage")

FolderEntries == SelectSeq(log, LAMBDA e : e.phase = "names")

FileEntries == SelectSeq(log, LAMBDA e : e.phase = "files")

YieldedFiles == SelectSeq(FileEntries, LAMBDA e : e.yielded)

DirCount == Cardinality({i \in 1..Len(out) : out[i].file_type = DIRECTORY})

FileCount == Cardinality({i \in 1..Len(out) : out[i].file_type = FILE})

EndsWith(path, name) ==
    /\ Len(path) >= Len(name)
    /\ SubSeq(path, Len(path) - Len(name) + 1, Len(path)) = name

\* the text of a name buffer
Text(buf) == Decode(buf).val

Decodes(buf) == Decode(buf).err = ""

\* the parent index a file entry's bytes hold
FileParent(e) == FromBytesLE(Take(e.chunk, 4))

\* C1: every Directory record comes before every File record; the i-th
\* Directory record is the record of folder-table entry i (its name and its
\* metadata), and the File records are those of the file-table entries that
\* yielded one, in table order.
C1_DirectoriesThenFilesInTableOrder ==
    /\ \A i \in 1..Len(out) :
        out[i].file_type = IF i <= DirCount THEN DIRECTORY ELSE FILE
    /\ DirCount <= Len(FolderEntries)
    /\ \A i \in 1..DirCount :
        /\ EndsWith(out[i].file_path, Text(FolderEntries[i].buf))
        /\ out[i].size = folder_list[i].size
        /\ out[i].attributes = folder_list[i].attributes
    /\ FileCount = Len(YieldedFiles)
    /\ \A k \in 1..FileCount :
        EndsWith(out[DirCount + k].file_path, <<Backslash>> \o Text(YieldedFiles[k].buf))

\* two folders and two files of different names were all yielded
C1_Witness ==
    /\ pc = "done"
    /\ DirCount = 2
    /\ FileCount = 2
    /\ FolderEntries[1].buf # FolderEntries[2].buf
    /\ YieldedFiles[1].buf # YieldedFiles[2].buf

\* C2: a complete iteration yields number_of_folders Directory records (the
\* roots of EFU filesystems among them) and number_of_files File records less
\* one for each file entry whose name bytes do not decode.
C2_RecordCounts ==
    pc = "done" =>
        /\ DirCount = number_of_folders
        /\ Len(FileEntries) = number_of_files
        /\ FileCount = number_of_files
                         - Cardinality({j \in 1..Len(FileEntries) :
                                          ~Decodes(FileEntries[j].buf)})

\* a complete iteration with an EFU root among the folders
C2_WitnessEfuRoot ==
    /\ pc = "done"
    /\ \E i \in 1..Len(folder_list) :
        /\ folder_list[i].parent_index = Null
        /\ filesystem_list[folder_list[i].fs_index + 1] = EFU

\* a complete iteration in which one file entry did not decode and one did
C2_Witness ==
    /\ pc = "done"
    /\ number_of_files = 2
    /\ FileCount = 1
    /\ DirCount >= 1

\* C3: a folder's path is its parent folder's path, a backslash and its own
\* basename, and just its basename when it has no parent folder; a file's path
\* is the path of the folder at its parent index, a backslash and its decoded
\* basename.
C3_PathsJoinParentAndBasename ==
    /\ \A i \in 1..DirCount :
        LET f == folder_list[i]
        IN  IF f.parent_index = Null THEN out[i].file_path = f.file_path
            ELSE f.parent_index < DirCount =>
                    out[i].file_path =
                        out[f.parent_index + 1].file_path \o <<Backslash>> \o f.file_path
    /\ \A k \in 1..FileCount :
        /\ FileParent(YieldedFiles[k]) < DirCount
        /\ out[DirCount + k].file_path =
              out[FileParent(YieldedFiles[k]) + 1].file_path
                \o <<Backslash>> \o Text(YieldedFiles[k].buf)

\* a file was yielded whose parent folder has a parent folder itself
C3_Witness ==
    /\ FileCount >= 1
    /\ folder_list[FileParent(YieldedFiles[1]) + 1].parent_index # Null
    /\ Len(out[DirCount + 1].file_path) >= 5

\* ---- what the bytes of a folder or file entry hold, read off the history
\* a file entry's name starts after its 4-byte parent index
NameOffset(e) == IF e.phase = "files" THEN 4 ELSE 0

\* the entry got as far as its name: a file entry's parent index was accepted
ReachesName(e) == e.phase = "files" => FileParent(e) < number_of_folders

HasKeepLen(e) ==
    /\ Len(e.chunk) >= NameOffset(e) + 1
    /\ e.chunk[NameOffset(e) + 1] # VarintSentinel

KeepLen(e) == e.chunk[NameOffset(e) + 1]

HasDropLen(e) ==
    /\ HasKeepLen(e)
    /\ KeepLen(e) > 0
    /\ Len(e.chunk) >= NameOffset(e) + 2
    /\ e.chunk[NameOffset(e) + 2] # VarintSentinel

DropLen(e) == e.chunk[NameOffset(e) + 2]

\* the keep_len bytes that follow the two lengths, when the stream holds them
HasNewBytes(e) == HasDropLen(e) /\ Len(e.chunk) >= NameOffset(e) + 2 + KeepLen(e)

NewBytes(e) == SubSeq(e.chunk, NameOffset(e) + 3, NameOffset(e) + 2 + KeepLen(e))

\* bytes of the name part of an entry
NameWidth(e) == IF KeepLen(e) = 0 THEN 1 ELSE 2 + KeepLen(e)

FlagWidth(bit, width) == IF HasFlag(flags, bit) THEN width ELSE 0

\* bytes of the flag-gated fields of an entry, size_bit being the size flag
\* of its table
FieldsWidth(size_bit) ==
    FlagWidth(size_bit, 8) + FlagWidth(HasDateCreated, 8) + FlagWidth(HasDateModified, 8)
      + FlagWidth(HasDateAccessed, 8) + FlagWidth(HasAttributes, 4)

IsNameEntry(e) == e.phase \in {"names", "files"}

\* C4: in both passes an entry with keep_len k > 0 and drop_from_prev d no
\* larger than the previous name gets the previous name less its last d bytes,
\* followed by the next k bytes of the stream; with keep_len 0 the name is the
\* previous name and the byte after keep_len is not taken as a drop value (the
\* flag-gated fields start there).  Each pass starts on an empty buffer.
C4_SharedPrefixNames ==
    /\ \A i \in 1..Len(log) :
        LET e == log[i]
        IN  (IsNameEntry(e) /\ ReachesName(e) /\ HasKeepLen(e)) =>
                /\ (HasNewBytes(e) /\ DropLen(e) <= Len(e.prev)) =>
                      e.buf = SubSeq(e.prev, 1, Len(e.prev) - DropLen(e)) \o NewBytes(e)
                /\ KeepLen(e) = 0 =>
                      /\ e.buf = e.prev
                      /\ (e.phase = "files"
                            /\ Len(e.chunk) >= 5 + FieldsWidth(HasFileSize)) =>
                              e.used = 5 + FieldsWidth(HasFileSize)
                      /\ (e.phase = "names" /\ ~e.failed) =>
                              e.used >= Min(Len(e.chunk), 1 + FieldsWidth(HasFolderSize))
    /\ FolderEntries # <<>> => FolderEntries[1].prev = <<>>
    /\ FileEntries # <<>> => FileEntries[1].prev = <<>>

\* the folder pass left a name in its buffer, and the file pass decoded a
\* first name on its own buffer and then a second one that keeps a prefix
C4_Witness ==
    /\ Len(FolderEntries) >= 1
    /\ FolderEntries[Len(FolderEntries)].buf # <<>>
    /\ Len(FileEntries) = 2
    /\ FileEntries[1].buf # <<>>
    /\ HasNewBytes(FileEntries[2])
    /\ DropLen(FileEntries[2]) = 0
    /\ Len(FileEntries[2].buf) = Len(FileEntries[1].buf) + KeepLen(FileEntries[2])

\* the entry's drop_from_prev is larger than the rolling buffer
DropTooLarge(e) ==
    IsNameEntry(e) /\ ReachesName(e) /\ HasDropLen(e) /\ DropLen(e) > Len(e.prev)

\* the records yielded when the first i steps of the history were done
YieldedBy(i) == Cardinality({j \in 1..i : log[j].yielded})

\* C5: in both passes an entry whose drop_from_prev is larger than the rolling
\* buffer ends the parse with ValueError: the buffer is left as it was (not
\* cut to its length), the entry yields no record and no step follows it.
C5_DropBeyondBufferFails ==
    \A i \in 1..Len(log) :
        DropTooLarge(log[i]) =>
            /\ log[i].failed
            /\ ~log[i].yielded
            /\ log[i].buf = log[i].prev
            /\ i = Len(log)
            /\ pc = "error"
            /\ err = "ValueError"
            /\ log[i].phase = "names" => out = <<>>
            /\ log[i].phase = "files" => Len(out) = number_of_folders + YieldedBy(i - 1)

\* a file entry drops more than the buffer holds after a record was yielded
C5_Witness ==
    /\ Len(log) >= 1
    /\ DropTooLarge(log[Len(log)])
    /\ log[Len(log)].phase = "files"
    /\ log[Len(log)].prev # <<>>
    /\ FileCount >= 1

\* the same in the folder pass
C5_WitnessFolderPass ==
    /\ Len(log) >= 1
    /\ DropTooLarge(log[Len(log)])
    /\ log[Len(log)].phase = "names"

\* the raw parent reference a folder's linkage bytes hold
RawParentRef(e) == FromBytesLE(Take(e.chunk, 4))

\* C6: a raw parent reference r of a folder-table entry ends the parse with
\* ValueError when r >= folders + filesystems; makes the folder a filesystem
\* root of filesystem r - folders, without parent folder, when
\* folders <= r < folders + filesystems; and makes folder r the parent, with
\* no filesystem index assigned by the linkage, when r < folders.
C6_ParentReferenceRanges ==
    \A i \in 1..Len(LinkEntries) :
        LET r == RawParentRef(LinkEntries[i])
            f == folder_list[i]
        IN  IF r >= number_of_folders + total_filesystem_num
            THEN /\ LinkEntries[i].failed
                 /\ i = Len(LinkEntries)
                 /\ pc = "error"
                 /\ err = "ValueError"
                 /\ out = <<>>
                 /\ FolderEntries = <<>>
            ELSE IF r >= number_of_folders
            THEN /\ ~LinkEntries[i].failed
                 /\ f.parent_index = Null
                 /\ f.fs_index = r - number_of_folders
            ELSE /\ ~LinkEntries[i].failed
                 /\ f.parent_index = r
                 /\ pc \in {"linkage", "resolve"} => f.fs_index = Null

\* the first folder is the root of the second filesystem, the second folder is
\* its child and has been given that filesystem
C6_Witness ==
    /\ Len(LinkEntries) = 2
    /\ RawParentRef(LinkEntries[1]) = number_of_folders + 1
    /\ RawParentRef(LinkEntries[2]) = 0
    /\ pc = "names"
    /\ folder_list[2].fs_index = 1

\* a reference one past the filesystems ended the parse
C6_WitnessOutOfRange ==
    /\ Len(LinkEntries) = 2
    /\ RawParentRef(LinkEntries[2]) = number_of_folders + total_filesystem_num
    /\ total_filesystem_num = 2
    /\ pc = "error"

\* C7: a file-table entry whose parent index is folder_count or more ends the
\* parse with ValueError before its name is read and yields no record, so the
\* parent index of every entry that yielded a File record is the index of a
\* folder.
C7_FileParentIsFolder ==
    \A j \in 1..Len(FileEntries) :
        LET e == FileEntries[j]
        IN  /\ FileParent(e) >= number_of_folders =>
                /\ e.failed
                /\ ~e.yielded
                /\ e.buf = e.prev
                /\ e.used = Min(Len(e.chunk), 4)
                /\ j = Len(FileEntries)
                /\ pc = "error"
                /\ err = "ValueError"
                /\ FileCount = YieldedBy(Len(log) - 1)
            /\ e.yielded =>
                /\ FileParent(e) < number_of_folders
                /\ FileParent(e) < Len(folder_list)

\* a file entry pointing at the first filesystem ended the parse after a file
\* of the last folder was yielded
C7_Witness ==
    /\ Len(FileEntries) = 2
    /\ FileEntries[1].yielded
    /\ FileParent(FileEntries[1]) = number_of_folders - 1
    /\ FileParent(FileEntries[2]) = number_of_folders
    /\ total_filesystem_num >= 1
    /\ pc = "error"
    /\ FileCount = 1

\* the raw value of a flag-gated field that starts after the first `start`
\* bytes of an entry, None when the flag is not set
RawField(e, start, bit, width) ==
    IF HasFlag(flags, bit) THEN FromBytesLE(Take(Drop(e.chunk, start), width)) ELSE Null

\* the raw size and dates an entry's bytes hold, size_bit being the size flag
\* of its table
RawSize(e, size_bit) == RawField(e, NameOffset(e) + NameWidth(e), size_bit, 8)

RawCreated(e, size_bit) ==
    RawField(e, NameOffset(e) + NameWidth(e) + FlagWidth(size_bit, 8), HasDateCreated, 8)

RawModified(e, size_bit) ==
    RawField(e, NameOffset(e) + NameWidth(e) + FlagWidth(size_bit, 8)
                  + FlagWidth(HasDateCreated, 8), HasDateModified, 8)

RawAccessed(e, size_bit) ==
    RawField(e, NameOffset(e) + NameWidth(e) + FlagWidth(size_bit, 8)
                  + FlagWidth(HasDateCreated, 8) + FlagWidth(HasDateModified, 8),
             HasDateAccessed, 8)

RawAttributes(e, size_bit) ==
    RawField(e, NameOffset(e) + NameWidth(e) + FlagWidth(size_bit, 8)
                  + FlagWidth(HasDateCreated, 8) + FlagWidth(HasDateModified, 8)
                  + FlagWidth(HasDateAccessed, 8), HasAttributes, 4)

\* folder i is the root of an EFU filesystem
IsEfuRoot(i) ==
    /\ folder_list[i].parent_index = Null
    /\ filesystem_list[folder_list[i].fs_index + 1] = EFU

AllUnknown(r) ==
    /\ r.size = Null
    /\ r.date_created = Null
    /\ r.date_modified = Null
    /\ r.date_accessed = Null

\* C8: a folder without parent folder on an EFU filesystem has size and the
\* three dates None, in the folder list and in its Directory record, whatever
\* the flags and the raw values of its entry; every other folder (other kinds,
\* and EFU folders with a parent folder) has the size and dates its entry
\* holds, and its Directory record has that size and the timestamps of those
\* dates (None for a flag that is not set or a raw date of 0).
C8_EfuRootMetadataUnknown ==
    \A i \in 1..Len(FolderEntries) :
        LET e == FolderEntries[i]
            f == folder_list[i]
        IN  ~e.failed =>
              IF IsEfuRoot(i)
              THEN /\ AllUnknown(f)
                   /\ i <= DirCount => AllUnknown(out[i])
              ELSE /\ f.size = RawSize(e, HasFolderSize)
                   /\ f.date_created = RawCreated(e, HasFolderSize)
                   /\ f.date_modified = RawModified(e, HasFolderSize)
                   /\ f.date_accessed = RawAccessed(e, HasFolderSize)
                   /\ i <= DirCount =>
                        /\ out[i].size = RawSize(e, HasFolderSize)
                        /\ out[i].date_created
                             = TimestampOrNone(RawCreated(e, HasFolderSize))
                        /\ out[i].date_modified
                             = TimestampOrNone(RawModified(e, HasFolderSize))
                        /\ out[i].date_accessed
                             = TimestampOrNone(RawAccessed(e, HasFolderSize))

\* with all flags set, the root of an EFU filesystem whose entry holds
\* non-zero metadata was yielded without it, and its child folder with its own
C8_Witness ==
    /\ flags = 63
    /\ DirCount = 2
    /\ IsEfuRoot(1)
    /\ RawSize(FolderEntries[1], HasFolderSize) > 0
    /\ RawCreated(FolderEntries[1], HasFolderSize) > 0
    /\ AllUnknown(out[1])
    /\ folder_list[2].parent_index = 0
    /\ filesystem_list[folder_list[2].fs_index + 1] = EFU
    /\ out[2].size > 0
    /\ out[2].date_created > 0

\* a root folder of another kind keeps its metadata
C8_WitnessNtfsRoot ==
    /\ flags = 63
    /\ DirCount >= 1
    /\ folder_list[1].parent_index = Null
    /\ filesystem_list[folder_list[1].fs_index + 1] = NTFS
    /\ out[1].size > 0
    /\ out[1].date_accessed > 0

\* the whole of a file entry is in the stream
FileEntryComplete(e) ==
    /\ HasKeepLen(e)
    /\ Len(e.chunk) >= 4 + NameWidth(e) + FieldsWidth(HasFileSize)

RECURSIVE ExpectedFileName(_)
\* the name of file entry j as its bytes and the bytes of the entries before
\* it spell it, whether or not any of these names is valid text
ExpectedFileName(j) ==
    IF j = 0 THEN <<>>
    ELSE LET e == FileEntries[j]
             previous == ExpectedFileName(j - 1)
         IN  IF KeepLen(e) = 0 THEN previous
             ELSE SubSeq(previous, 1, Len(previous) - DropLen(e)) \o NewBytes(e)

RECURSIVE WellFormedFiles(_)
\* file entries 1..j are whole, point at folders and drop no more than the
\* name before them holds
WellFormedFiles(j) ==
    j > 0 =>
        /\ WellFormedFiles(j - 1)
        /\ FileEntryComplete(FileEntries[j])
        /\ FileParent(FileEntries[j]) < number_of_folders
        /\ KeepLen(FileEntries[j]) > 0 =>
              /\ HasDropLen(FileEntries[j])
              /\ DropLen(FileEntries[j]) <= Len(ExpectedFileName(j - 1))

\* the File records yielded by file entries 1..j
YieldedUpTo(j) == Cardinality({i \in 1..j : FileEntries[i].yielded})

\* C9: a file entry whose name is not valid text yields no record and does not
\* end the parse; the cursor and the rolling buffer are past the entry all the
\* same, so every entry after it has the name its bytes spell on top of the
\* undecodable name, and is yielded with that name, the path of its parent
\* folder and the metadata of its own bytes.
C9_UndecodableFileNameSkipped ==
    \A j \in 1..Len(FileEntries) :
        LET e == FileEntries[j]
        IN  WellFormedFiles(j) =>
              /\ ~e.failed
              /\ e.used = 4 + NameWidth(e) + FieldsWidth(HasFileSize)
              /\ e.buf = ExpectedFileName(j)
              /\ e.yielded = Decodes(ExpectedFileName(j))
              /\ j = Len(FileEntries) => (err = "" /\ pc \in {"files", "done"})
              /\ e.yielded =>
                   out[DirCount + YieldedUpTo(j)] =
                     EverythingF(out[FileParent(e) + 1].file_path \o <<Backslash>>
                                   \o Text(ExpectedFileName(j)),
                                 RawSize(e, HasFileSize),
                                 RawAttributes(e, HasFileSize),
                                 TimestampOrNone(RawCreated(e, HasFileSize)),
                                 TimestampOrNone(RawModified(e, HasFileSize)),
                                 TimestampOrNone(RawAccessed(e, HasFileSize)),
                                 FILE)

\* the first file entry's name is not valid text and yielded nothing; the
\* second entry replaces the bad byte and was yielded with its metadata
C9_Witness ==
    /\ Len(FileEntries) = 2
    /\ WellFormedFiles(2)
    /\ ~Decodes(FileEntries[1].buf)
    /\ HasDropLen(FileEntries[2])
    /\ DropLen(FileEntries[2]) = 1
    /\ FileEntries[2].yielded
    /\ FileCount = 1
    /\ pc = "done"
    /\ flags = 63
    /\ out[Len(out)].size > 0

\* the second entry builds on the undecodable name and is skipped as well
C9_WitnessBothSkipped ==
    /\ Len(FileEntries) = 2
    /\ WellFormedFiles(2)
    /\ ~Decodes(FileEntries[1].buf)
    /\ Len(FileEntries[2].buf) > Len(FileEntries[1].buf)
    /\ FileCount = 0
    /\ pc = "done"

\* the step of the history that read the reserved integers
ReservedEntries == SelectSeq(log, LAMBDA e : e.phase = "reserved")

\* the three reserved integers were all read (none is cut off or the 4-byte
\* marker) and one of them is not 0
ReservedNonZero(e) ==
    /\ Len(e.chunk) = 4
    /\ \A k \in 2..4 : e.chunk[k] # VarintSentinel
    /\ \E k \in 2..4 : e.chunk[k] # 0

RECURSIVE UsedUpTo(_)
\* bytes consumed by the first i steps of the history
UsedUpTo(i) == IF i = 0 THEN 0 ELSE UsedUpTo(i - 1) + log[i].used

\* C10: when the three reserved integers after the filesystem table are read
\* and one of them is not 0, the constructor raises NotImplementedError; no
\* step follows it: no byte of the folder or file table is read (the cursor
\* stands right after the third integer), no folder exists and no record is
\* yielded.
C10_ReservedDataUnsupported ==
    \A i \in 1..Len(log) :
        (log[i].phase = "reserved" /\ ReservedNonZero(log[i])) =>
            /\ log[i].failed
            /\ i = Len(log)
            /\ pc = "error"
            /\ err = "NotImplementedError"
            /\ log[i].used = 4
            /\ pos = UsedUpTo(i)
            /\ LinkEntries = <<>>
            /\ FolderEntries = <<>>
            /\ FileEntries = <<>>
            /\ folder_list = <<>>
            /\ out = <<>>

\* only the last of the three reserved integers is not 0, in an index that
\* announces a folder
C10_Witness ==
    /\ Len(ReservedEntries) = 1
    /\ ReservedNonZero(ReservedEntries[1])
    /\ ReservedEntries[1].chunk[2] = 0
    /\ ReservedEntries[1].chunk[3] = 0
    /\ number_of_folders > 0
    /\ pc = "error"

\* the first of the three is 1 and the others are 0
C10_WitnessFirst ==
    /\ Len(ReservedEntries) = 1
    /\ SubSeq(ReservedEntries[1].chunk, 2, 4) = <<1, 0, 0>>
    /\ pc = "error"

\* the step of the history that read the number of filesystems, which is one
\* call of read_byte_or_4
FsCountEntries == SelectSeq(log, LAMBDA e : e.phase = "fs_count")

\* C11: read_byte_or_4 on a first byte b other than 0xFF returns b and has
\* consumed one byte; on a first byte 0xFF followed by 4 bytes it returns
\* their little-endian value and has consumed five bytes.  Stated of the call
\* that reads the number of filesystems.
C11_ByteOr4AsSpecified ==
    \A i \in 1..Len(FsCountEntries) :
        LET e == FsCountEntries[i]
        IN  /\ (Len(e.chunk) >= 1 /\ e.chunk[1] # VarintSentinel) =>
                /\ ~e.failed
                /\ e.used = 1
                /\ total_filesystem_num = e.chunk[1]
            /\ (Len(e.chunk) = 5 /\ e.chunk[1] = VarintSentinel) =>
                /\ ~e.failed
                /\ e.used = 5
                /\ total_filesystem_num = FromBytesLE(SubSeq(e.chunk, 2, 5))

\* C11, the one-byte case alone, which the code has: a first byte other than
\* 0xFF is the value and one byte is consumed; a first byte 0xFF raises
\* NotImplementedError after that one byte, the 4 bytes after it unread.
C11_OneByteValues ==
    \A i \in 1..Len(FsCountEntries) :
        LET e == FsCountEntries[i]
        IN  /\ (Len(e.chunk) >= 1 /\ e.chunk[1] # VarintSentinel) =>
                /\ ~e.failed
                /\ e.used = 1
                /\ total_filesystem_num = e.chunk[1]
            /\ (Len(e.chunk) >= 1 /\ e.chunk[1] = VarintSentinel) =>
                /\ e.failed
                /\ e.used = 1
                /\ pc = "error"
                /\ err = "NotImplementedError"

\* the number of filesystems is written as 0xFF and the 4 bytes of the value 1
C11_FiveByteInput ==
    /\ Len(FsCountEntries) = 1
    /\ FsCountEntries[1].chunk = <<VarintSentinel, 1, 0, 0, 0>>

\* bytes of the block after a folder's flag-gated fields
TrailingWidth(kind) == IF kind = NTFS THEN 8 ELSE IF kind = REFS THEN 16 ELSE 0

\* the whole of folder entry i is in the stream
FolderEntryComplete(i) ==
    /\ HasKeepLen(FolderEntries[i])
    /\ Len(FolderEntries[i].chunk) >=
          NameWidth(FolderEntries[i]) + FieldsWidth(HasFolderSize)
            + TrailingWidth(filesystem_list[folder_list[i].fs_index + 1])

\* C12: when the byte source ends inside the header, the folder table or the
\* file table the parse fails, and no Directory or File record comes from an
\* entry that the stream holds only in part.
C12_TruncationIsFatal ==
    /\ eof => pc = "error"
    /\ \A i \in 1..DirCount : FolderEntryComplete(i)
    /\ \A j \in 1..Len(FileEntries) :
        FileEntries[j].yielded => FileEntryComplete(FileEntries[j])

\* the stream ended after the name of the only file entry, all flags set: a
\* File record was yielded all the same and the iteration completed
C12_ShortFileEntryYielded ==
    /\ eof
    /\ pc = "done"
    /\ flags = 63
    /\ Len(FileEntries) = 1
    /\ FileEntries[1].yielded
    /\ Len(FileEntries[1].chunk) = 4 + NameWidth(FileEntries[1])
    /\ out[Len(out)].size = 0
    /\ out[Len(out)].date_created = Null

\* a complete iteration over an index with has-date-modified as its only flag,
\* one folder, the root of an NTFS filesystem, and no file
SingleNtfsRoot ==
    /\ pc = "done"
    /\ ~eof
    /\ flags = HasDateModified
    /\ number_of_folders = 1
    /\ number_of_files = 0
    /\ Len(FolderEntries) = 1
    /\ folder_list[1].parent_index = Null
    /\ filesystem_list[folder_list[1].fs_index + 1] = NTFS

\* what the scenario yields apart from date_modified: one Directory record
\* with the root's basename as path and no size, date_created or date_accessed
SingleNtfsRootRecord ==
    /\ Len(out) = 1
    /\ out[1].file_type = DIRECTORY
    /\ out[1].file_path = Text(FolderEntries[1].buf)
    /\ out[1].size = Null
    /\ out[1].date_created = Null
    /\ out[1].date_accessed = Null

\* C13 as stated: the scenario yields exactly one Directory record with the
\* root's basename, a date_modified that is set whatever raw value the stream
\* holds, and the other optional fields None.
C13_DateModifiedAlwaysSet ==
    SingleNtfsRoot => (SingleNtfsRootRecord /\ out[1].date_modified # Null)

\* C13 amended: the same, with date_modified the timestamp of the raw value
\* when that value is not 0, and None when it is 0.
C13_DateModifiedSetUnlessZero ==
    SingleNtfsRoot =>
        /\ SingleNtfsRootRecord
        /\ out[1].attributes = DefaultFolderAttributes
        /\ out[1].date_modified =
              IF RawModified(FolderEntries[1], HasFolderSize) = 0 THEN Null
              ELSE wintimestamp(RawModified(FolderEntries[1], HasFolderSize))

\* the scenario with a raw modified value of 0: the record has no date_modified
C13_Witness ==
    /\ SingleNtfsRoot
    /\ Len(FolderEntries[1].chunk) = 3 + 8 + 8
    /\ RawModified(FolderEntries[1], HasFolderSize) = 0
    /\ out[1].date_modified = Null

\* the scenario with a raw modified value other than 0
C13_WitnessNonZero ==
    /\ SingleNtfsRoot
    /\ RawModified(FolderEntries[1], HasFolderSize) > 0
    /\ out[1].date_modified # Null

\* every folder has its linkage and every raw parent reference passed the
\* range check
InRangeTable ==
    /\ Len(LinkEntries) = number_of_folders
    /\ \A i \in 1..Len(LinkEntries) :
        RawParentRef(LinkEntries[i]) < number_of_folders + total_filesystem_num

\* the filesystem resolution of the folders has run
ResolutionRan == pc \in {"names", "emit", "files", "done", "error"}

\* the parse ended in a step that read nothing, which only the filesystem
\* resolution can do
ResolveRaised == pc = "error" /\ log # <<>> /\ ~log[Len(log)].failed

RECURSIVE ReachesRoot(_, _)
\* following the raw parent references from folder i comes to a filesystem
\* root within n hops
ReachesRoot(i, n) ==
    IF RawParentRef(LinkEntries[i]) >= number_of_folders THEN TRUE
    ELSE IF n = 0 THEN FALSE
    ELSE ReachesRoot(RawParentRef(LinkEntries[i]) + 1, n - 1)

\* C14: for a folder table whose raw parent references all pass the range
\* check, the resolution comes to an end for every folder with a filesystem
\* index in 0..filesystem_count - 1, and no chain of parent references comes
\* back to a folder it has visited.
C14_ResolutionTerminates ==
    (InRangeTable /\ ResolutionRan) =>
        /\ ~ResolveRaised
        /\ \A i \in 1..number_of_folders :
            /\ ReachesRoot(i, number_of_folders)
            /\ folder_list[i].fs_index \in 0..(total_filesystem_num - 1)

\* C14, what the code does: chains that come to a filesystem root give every
\* folder the index of that root's filesystem; a table with a chain that
\* comes back on itself passes the range check and ends the generator with
\* RecursionError in resolve_fs, before any record.
C14_CyclesExhaustTheStack ==
    (InRangeTable /\ ResolutionRan) =>
        /\ ResolveRaised <=> (\E i \in 1..number_of_folders :
                                 ~ReachesRoot(i, number_of_folders))
        /\ ResolveRaised => (err = "RecursionError" /\ out = <<>>)
        /\ ~ResolveRaised =>
              \A i \in 1..number_of_folders :
                  folder_list[i].fs_index \in 0..(total_filesystem_num - 1)

\* the only folder names itself as its parent: the reference is in range and
\* the resolution raised
C14_SelfParent ==
    /\ number_of_folders = 1
    /\ InRangeTable
    /\ LinkEntries[1].chunk = <<0, 0, 0, 0>>
    /\ ~eof
    /\ ResolveRaised
    /\ err = "RecursionError"

\* two folders name each other
C14_TwoCycle ==
    /\ number_of_folders = 2
    /\ InRangeTable
    /\ RawParentRef(LinkEntries[1]) = 1
    /\ RawParentRef(LinkEntries[2]) = 0
    /\ ResolveRaised

\* bytes are left unread for the next step only between two entries of the
\* folder table or of the file table
LookAheadOnlyInsideTables == ahead # <<>> => pc \in {"names", "files"}

\* bytes of folder entry i as the layout has them: the name, the flag-gated
\* fields and the block of the kind of the folder's filesystem
FolderEntryWidth(i) ==
    NameWidth(FolderEntries[i]) + FieldsWidth(HasFolderSize)
      + TrailingWidth(filesystem_list[folder_list[i].fs_index + 1])

\* bytes of a file entry as the layout has them: the parent index, the name
\* and the flag-gated fields
FileEntryWidth(e) == 4 + NameWidth(e) + FieldsWidth(HasFileSize)

\* C15: a folder entry consumes, after its name, 8 bytes for each of size,
\* created, modified and accessed whose flag is set and 4 for attributes, in
\* that order, then 8 bytes on NTFS, 16 on REFS and none on EFU and FOLDER; a
\* file entry consumes the same flag-gated fields and nothing after them.  A
\* folder's attributes are 16 unless has-attributes is set, and then the value
\* read.  (Of a stream that ends inside the entry, what there is is consumed.)
C15_EntryWidths ==
    /\ \A i \in 1..Len(FolderEntries) :
        LET e == FolderEntries[i]
            f == folder_list[i]
        IN  ~e.failed =>
              /\ e.used = Min(Len(e.chunk), FolderEntryWidth(i))
              /\ f.attributes = IF HasFlag(flags, HasAttributes)
                                THEN RawAttributes(e, HasFolderSize)
                                ELSE DefaultFolderAttributes
              /\ ~IsEfuRoot(i) =>
                    /\ f.size = RawSize(e, HasFolderSize)
                    /\ f.date_created = RawCreated(e, HasFolderSize)
                    /\ f.date_modified = RawModified(e, HasFolderSize)
                    /\ f.date_accessed = RawAccessed(e, HasFolderSize)
    /\ \A j \in 1..Len(FileEntries) :
        LET e == FileEntries[j]
        IN  ~e.failed =>
              /\ e.used = Min(Len(e.chunk), FileEntryWidth(e))
              /\ e.yielded =>
                    /\ out[DirCount + YieldedUpTo(j)].size = RawSize(e, HasFileSize)
                    /\ out[DirCount + YieldedUpTo(j)].attributes
                         = RawAttributes(e, HasFileSize)

\* the first of two folders of an EFU filesystem was decoded from a step that
\* was also given the first byte of the second, and left that byte unread;
\* all flags are set
C15_Witness ==
    /\ flags = 63
    /\ Len(FolderEntries) = 2
    /\ ~FolderEntries[2].failed
    /\ filesystem_list[folder_list[1].fs_index + 1] = EFU
    /\ Len(FolderEntries[1].chunk) = FolderEntryWidth(1) + 1
    /\ FolderEntries[1].used = 3 + 36
    /\ FolderEntries[2].used = 3 + 36

\* the same for the first of two files
C15_WitnessFiles ==
    /\ flags = 63
    /\ Len(FileEntries) = 2
    /\ FileEntries[2].yielded
    /\ Len(FileEntries[1].chunk) = FileEntryWidth(FileEntries[1]) + 1
    /\ FileEntries[1].used = FileEntryWidth(FileEntries[1])

\* a folder of a REFS filesystem with its 16 bytes
C15_WitnessRefs ==
    /\ Len(FolderEntries) = 1
    /\ ~FolderEntries[1].failed
    /\ filesystem_list[folder_list[1].fs_index + 1] = REFS
    /\ FolderEntries[1].used = NameWidth(FolderEntries[1]) + FieldsWidth(HasFolderSize) + 16

\* a folder of an NTFS filesystem with its 8 bytes
C15_WitnessNtfs ==
    /\ Len(FolderEntries) = 1
    /\ ~FolderEntries[1].failed
    /\ filesystem_list[folder_list[1].fs_index + 1] = NTFS
    /\ FolderEntries[1].used = NameWidth(FolderEntries[1]) + FieldsWidth(HasFolderSize) + 8

\* a folder of a filesystem of kind FOLDER, with nothing after its fields
C15_WitnessFolderKind ==
    /\ Len(FolderEntries) = 1
    /\ ~FolderEntries[1].failed
    /\ filesystem_list[folder_list[1].fs_index + 1] = FOLDER
    /\ FolderEntries[1].used = NameWidth(FolderEntries[1]) + FieldsWidth(HasFolderSize)

\* without flags a folder has the attributes 16
C15_WitnessDefaultAttributes ==
    /\ flags = 0
    /\ DirCount >= 1
    /\ out[1].attributes = DefaultFolderAttributes

\* the folder table is decoded in full: every folder has its linkage, its
\* filesystem index, its name and its metadata
FolderTableDecoded ==
    /\ Len(LinkEntries) = number_of_folders
    /\ Len(FolderEntries) = number_of_folders
    /\ \A i \in 1..number_of_folders :
        /\ ~LinkEntries[i].failed
        /\ ~FolderEntries[i].failed
        /\ folder_list[i].fs_index # Null

\* C16: a record has been yielded only when the folder table is decoded in
\* full, so a parse that ended before the file table (in the header, the
\* linkage, the filesystem resolution or the folder names) has yielded
\* nothing; a parse that ended in file entry j has yielded the folder_count
\* Directory records and the File records of the entries before j that
\* decoded, and nothing else.
C16_ErrorsAndEmissionOrder ==
    /\ out # <<>> => FolderTableDecoded
    /\ (pc = "error" /\ FileEntries = <<>>) => out = <<>>
    /\ (pc = "error" /\ FileEntries # <<>>) =>
          /\ FileEntries[Len(FileEntries)].failed
          /\ ~FileEntries[Len(FileEntries)].yielded
          /\ DirCount = number_of_folders
          /\ FileCount = Cardinality({j \in 1..(Len(FileEntries) - 1) :
                                        Decodes(FileEntries[j].buf)})
          /\ Len(out) = DirCount + FileCount

\* the second folder's name failed after the first was decoded: no record
C16_Witness ==
    /\ pc = "error"
    /\ Len(FolderEntries) = 2
    /\ ~FolderEntries[1].failed
    /\ FolderEntries[2].failed
    /\ out = <<>>

\* the second file entry failed after the first was yielded
C16_WitnessFileError ==
    /\ pc = "error"
    /\ Len(FileEntries) = 2
    /\ FileEntries[1].yielded
    /\ FileEntries[2].failed
    /\ number_of_folders >= 1
    /\ Len(out) = number_of_folders + 1

====
